---- MODULE Spec2Model ----
(***************************************************************************)
(* Model of PyWhis.py: the two background tasks (ModelDownloadWorker,      *)
(* TranscriptionWorker) and the controller (WhisperGUI) that starts them   *)
(* and handles their signals.                                              *)
(*                                                                         *)
(* Threads.  Each worker's run() executes on its own thread; the signals   *)
(* it emits are delivered to the controller through the GUI thread's event *)
(* queue (queued connections), in emission order.  The controller's        *)
(* handlers and the user's clicks run on the GUI thread, one at a time,    *)
(* except where a handler opens a modal dialog or calls processEvents():   *)
(* there a nested event loop dispatches queued events before the handler   *)
(* continues.  A worker thread's action runs from one point where it       *)
(* blocks or reads state shared with the GUI thread (is_cancelled, the     *)
(* file list, the model files on disk) to the next.                        *)
(*                                                                         *)
(* Objects.  Once a worker's run() has returned and the GUI thread has     *)
(* handled every signal it emitted, nothing reads the object again; the    *)
(* model then forgets its attributes.  A model handle is a number;         *)
(* whisper.load_model returns an object distinct from every object still   *)
(* in use.                                                                 *)
(*                                                                         *)
(* Widgets.  Of the widgets, the model keeps each control's enabled flag,  *)
(* the combo box's selection and the text of status_label.  The slots that *)
(* only repaint other widgets (update_progress, file_completed,            *)
(* show_error, update_download_progress, update_download_status) change    *)
(* nothing here; their signals are kept in the emitting worker's history   *)
(* and are not queued.                                                     *)
(*                                                                         *)
(* Abstractions.  A path is a record [dir, stem, ext].  Wall-clock times   *)
(* (durations) are not modelled.  A transcript is represented by its word  *)
(* count.  An exception message str(e) is represented by the name of the   *)
(* call that raised it.  The files a task writes are recorded with the     *)
(* task: written (transcripts, in order) and logs (error-log files).       *)
(* load_settings gives the three directories their values at construction; *)
(* the file save_settings writes is not read again while the program runs. *)
(*                                                                         *)
(* Specifications.  Spec is the whole controller with the model the combo  *)
(* box shows at construction; SpecReload adds the choice of model and      *)
(* allows more acquisitions and fewer batches.  SpecJobs is the controller *)
(* after a model was loaded, without further acquisitions; SpecAcquire is  *)
(* the controller without batches, and FairAcquire adds that the event     *)
(* loop delivers the signals and the user closes the error dialogs.        *)
(* SpecOverlap is the controller after a model was loaded, with batches    *)
(* of files that succeed and a further acquisition of the same model.      *)
(* SpecBatch is one batch and the Cancel button; FairBatch adds that the   *)
(* worker thread keeps running.                                            *)
(***************************************************************************)
EXTENDS Integers, Sequences, FiniteSets, TLC

\* ------------------------------------------------------------------ bounds
\* Longest input list of a batch in SpecBatch.
MaxFiles == 3
\* A transcript has MaxWords words, or none in SpecBatch and SpecJobs.
MaxWords == 1
\* Longest file list the user builds in Spec and SpecReload.
MaxListed == 1
\* TranscriptionWorker and ModelDownloadWorker objects created in one run
\* of Spec.
MaxTranscriptions == 3
MaxDownloads == 2
\* TranscriptionWorker and ModelDownloadWorker objects created in one run
\* of SpecReload; SpecAcquire creates as many ModelDownloadWorkers.
MaxBatches == 1
MaxReloads == 3
\* TranscriptionWorker objects created in one run of SpecJobs and of
\* SpecOverlap, and the longest file list the user builds there; SpecOverlap
\* creates MaxDownloads ModelDownloadWorkers, the first before its Init.
MaxJobs == 2
MaxJobFiles == 2

\* ------------------------------------------------------------------- state
VARIABLES
    files,            \* WhisperGUI.files: the list shown in the file list
    worker,           \* WhisperGUI.worker: index into workers, 0 for None
    download_worker,  \* WhisperGUI.download_worker: index into downloads, 0 for None
    model,            \* WhisperGUI.model: handle of the loaded model, 0 for None
    model_loaded,     \* WhisperGUI.model_loaded
    models_dir,       \* WhisperGUI.models_dir ("" when unset)
    error_log_path,   \* WhisperGUI.error_log_path ("" when unset)
    output_dir,       \* WhisperGUI.output_dir ("" when unset)
    enabled,          \* widget name -> isEnabled()
    model_combo,      \* model_combo.currentData()
    status_label,     \* status_label's text: which message, and the count in it
    modal,            \* stack of handlers suspended in a nested event loop
    queue,            \* GUI thread's queue of signals posted by worker threads
    workers,          \* every TranscriptionWorker created so far
    downloads,        \* every ModelDownloadWorker created so far
    artifacts,        \* model files on disk: path -> absent, partial, complete
    cancel_at         \* SpecBatch only: where the task was when cancel() was
                      \* first called (for the properties; nothing reads it)

gui_fields == <<files, worker, download_worker, model, model_loaded,
                models_dir, error_log_path, output_dir>>
gui_widgets == <<enabled, model_combo, status_label>>
vars == <<files, worker, download_worker, model, model_loaded, models_dir,
          error_log_path, output_dir, enabled, model_combo, status_label,
          modal, queue, workers, downloads, artifacts, cancel_at>>

\* ----------------------------------------------------------------- values
NoFile == [dir |-> "", stem |-> "", ext |-> ""]

\* A signal emission: the signal's name, which message it carries (for the
\* string signals), a file and up to two integers.  src is the index of the
\* emitting worker; no handler reads it.
Ev(sig, kind, file, a, b) ==
    [src |-> 0, sig |-> sig, kind |-> kind, file |-> file, a |-> a, b |-> b]

\* Path(file_path).name
FileName(p) == [dir |-> "", stem |-> p.stem, ext |-> p.ext]

\* Path(self.output_dir) / (Path(file_path).stem + '.txt')
OutputPath(dir, p) == [dir |-> dir, stem |-> p.stem, ext |-> "txt"]

\* int(((idx + 1) / total_files) * 100).  The float expression equals the
\* integer quotient for every total_files below 10 (the first pair where
\* they differ is 23 of 10: 229 against 230).
ProgressPercent(done, total) == (done * 100) \div total

\* The media files the user can pick: they share a base name, and a list
\* may name the same file twice.
MediaFiles ==
    { [dir |-> "in", stem |-> "a", ext |-> "mp3"],
      [dir |-> "in", stem |-> "a", ext |-> "wav"] }

RECURSIVE SeqsUpTo(_, _)
SeqsUpTo(S, n) ==
    IF n <= 0 THEN { <<>> }
    ELSE LET shorter == SeqsUpTo(S, n - 1)
         IN  shorter \cup { Append(s, x) : s \in shorter, x \in S }

\* ------------------------------------------------- TranscriptionWorker
\* TranscriptionWorker.__init__.  shared: the worker's files attribute is
\* the very list object WhisperGUI.files refers to (it is passed, not copied).
NewTranscriptionWorker(id, fs, mdl, out, log) ==
    [ id |-> id, live |-> TRUE, files |-> fs, shared |-> TRUE, model |-> mdl,
      output_dir |-> out, error_log_path |-> log, is_cancelled |-> FALSE,
      errors |-> <<>>, pc |-> "start", idx |-> 0, total_files |-> 0,
      total_words |-> 0, successful_files |-> 0, emitted |-> <<>>,
      written |-> <<>>, logs |-> <<>> ]

Emit(wk, e) == [wk EXCEPT !.emitted = Append(@, [e EXCEPT !.src = wk.id])]

\* The events wk2 has emitted beyond those of wk1.
NewEvents(wk1, wk2) ==
    SubSeq(wk2.emitted, Len(wk1.emitted) + 1, Len(wk2.emitted))

\* run(), lines 99-102: the locals before the loop.
RunStart(wk) ==
    [wk EXCEPT !.total_files = Len(wk.files), !.total_words = 0,
               !.successful_files = 0, !.idx = 0, !.pc = "loop"]

\* Faulty variants of the loop head: one leaves the loop once a failure has
\* been recorded, the other never reads the cancellation flag.
LoopHeadStopsAfterError(wk) ==
    IF wk.idx >= Len(wk.files) \/ wk.errors # <<>>
    THEN [wk EXCEPT !.pc = "end"]
    ELSE [Emit(wk, Ev("status", "transcribing", FileName(wk.files[wk.idx + 1]),
                      wk.idx + 1, wk.total_files))
            EXCEPT !.pc = "transcribe"]

LoopHeadIgnoresCancel(wk) ==
    IF wk.idx >= Len(wk.files)
    THEN [wk EXCEPT !.pc = "end"]
    ELSE [Emit(wk, Ev("status", "transcribing", FileName(wk.files[wk.idx + 1]),
                      wk.idx + 1, wk.total_files))
            EXCEPT !.pc = "transcribe"]

\* run(), lines 104-110: the list iterator's next(), the cancellation check
\* and the status naming the file.
LoopHead(wk) ==
    IF wk.idx >= Len(wk.files)
    THEN [wk EXCEPT !.pc = "end"]
    ELSE IF wk.is_cancelled
    THEN [Emit(wk, Ev("status", "cancelled", NoFile, 0, 0)) EXCEPT !.pc = "end"]
    ELSE [Emit(wk, Ev("status", "transcribing", FileName(wk.files[wk.idx + 1]),
                      wk.idx + 1, wk.total_files))
            EXCEPT !.pc = "transcribe"]

\* run(), lines 137-139: progress after the try statement, then the next
\* iteration.
UpdateProgress(wk) ==
    [Emit(wk, Ev("progress", "", NoFile,
                 ProgressPercent(wk.idx + 1, wk.total_files), 0))
        EXCEPT !.idx = wk.idx + 1, !.pc = "loop"]

\* run(), lines 131-135: the except clause.
HandleFileError(wk, msg) ==
    LET name == FileName(wk.files[wk.idx + 1])
        w1 == [wk EXCEPT !.errors = Append(@, [file |-> name, msg |-> msg])]
        w2 == Emit(w1, Ev("error", msg, name, 0, 0))
    IN  Emit(w2, Ev("status", "skipped", name, 0, 0))

\* run(), lines 112-139 when model.transcribe raises.
TranscribeFails(wk) == UpdateProgress(HandleFileError(wk, "transcribe"))

\* A faulty variant of SaveFails: the file is counted before it is saved.
SaveFailsCounted(wk, wc, created) ==
    LET out == OutputPath(wk.output_dir, wk.files[wk.idx + 1])
        w1 == [wk EXCEPT !.total_words = @ + wc,
                         !.successful_files = @ + 1,
                         !.written = IF created THEN Append(@, out) ELSE @]
    IN  UpdateProgress(HandleFileError(w1, "save"))

\* run(), lines 112-139 when transcribe returns wc words and mkdir or
\* save_transcription raises: total_words was already increased (line 120).
\* created: the output file was opened before the exception.
SaveFails(wk, wc, created) ==
    LET out == OutputPath(wk.output_dir, wk.files[wk.idx + 1])
        w1 == [wk EXCEPT !.total_words = @ + wc,
                         !.written = IF created THEN Append(@, out) ELSE @]
    IN  UpdateProgress(HandleFileError(w1, "save"))

\* A faulty variant of FileSucceeds: progress is signalled before the result.
FileSucceedsProgressFirst(wk, wc) ==
    LET name == FileName(wk.files[wk.idx + 1])
        out == OutputPath(wk.output_dir, wk.files[wk.idx + 1])
        w1 == [wk EXCEPT !.total_words = @ + wc,
                         !.written = Append(@, out),
                         !.successful_files = @ + 1]
        w2 == UpdateProgress(w1)
    IN  Emit(w2, Ev("file_complete", "", name, wc, 0))

\* run(), lines 112-139 when nothing raises.
FileSucceeds(wk, wc) ==
    LET name == FileName(wk.files[wk.idx + 1])
        out == OutputPath(wk.output_dir, wk.files[wk.idx + 1])
        w1 == [wk EXCEPT !.total_words = @ + wc,
                         !.written = Append(@, out),
                         !.successful_files = @ + 1]
    IN  UpdateProgress(Emit(w1, Ev("file_complete", "", name, wc, 0)))

\* A faulty variant of WantsLog: a log is written whenever a directory is set.
WantsLogWhenConfigured(wk) == wk.error_log_path # ""

\* run(), line 142
WantsLog(wk) == wk.errors # <<>> /\ wk.error_log_path # ""

\* A faulty variant of RunEnd: a failed log write ends the run.
RunEndLogFailureFatal(wk, logOK) ==
    IF WantsLog(wk) /\ ~logOK
    THEN [Emit(wk, Ev("error", "log",
                      [NoFile EXCEPT !.stem = "Error Log"], 0, 0))
            EXCEPT !.pc = "done"]
    ELSE LET w1 == IF WantsLog(wk)
                   THEN [wk EXCEPT !.logs = Append(@, wk.errors)] ELSE wk
         IN  [Emit(w1, Ev("all_complete", "", NoFile, wk.total_words,
                          wk.successful_files))
                 EXCEPT !.pc = "done"]

\* A faulty variant of RunEnd: a cancelled run ends without its summary.
RunEndSilentWhenCancelled(wk, logOK) ==
    IF wk.is_cancelled
    THEN [wk EXCEPT !.pc = "done"]
    ELSE [Emit(wk, Ev("all_complete", "", NoFile, wk.total_words,
                      wk.successful_files))
            EXCEPT !.pc = "done"]

\* run(), lines 141-146, with write_error_log (152-169): logOK says whether
\* the log's directory and file could be written.
RunEnd(wk, logOK) ==
    LET w1 == IF WantsLog(wk) /\ ~logOK
              THEN Emit(wk, Ev("error", "log",
                               [NoFile EXCEPT !.stem = "Error Log"], 0, 0))
              ELSE IF WantsLog(wk)
              THEN [wk EXCEPT !.logs = Append(@, wk.errors)]
              ELSE wk
    IN  [Emit(w1, Ev("all_complete", "", NoFile, wk.total_words,
                     wk.successful_files))
            EXCEPT !.pc = "done"]

\* The loop head and, when it leaves the loop, the rest of run().
Advance(wk, logOK) ==
    LET head == LoopHead(wk)
    IN  IF head.pc = "end" THEN RunEnd(head, logOK) ELSE head

\* TranscriptionWorker.cancel
cancel(wk) == [wk EXCEPT !.is_cancelled = TRUE]

\* QThread.finished, emitted by the thread when run() has returned.
ThreadFinished(w) == [Ev("finished", "", NoFile, 0, 0) EXCEPT !.src = w]

Running(wk) == wk.live /\ wk.pc # "done"

\* ------------------------------------------------- ModelDownloadWorker
\* MODEL_URLS.keys() (the same keys as MODEL_SIZES).
MODEL_URLS == {"tiny", "base", "small", "medium", "large-v2", "large-v3"}

\* The entries of model_combo the user picks.
PickedModels == {"medium", "tiny"}

\* Path(self.models_dir) / f"{self.model_name}.pt"
ModelPath(dir, name) == [dir |-> dir, stem |-> name, ext |-> "pt"]

\* urlretrieve reads the response in blocks of block_size and calls the hook
\* with the number of blocks read so far.  Sizes are in units of half a block.
BlockSize == 2
\* The length of the response body, and the Content-Length values the hook
\* can be given (-1: the header is absent).
ContentLength == 3
TotalSizes == {-1, ContentLength}
NumBlocks == (ContentLength + BlockSize - 1) \div BlockSize

NewDownloadWorker(id, name, dir) ==
    [ id |-> id, live |-> TRUE, model_name |-> name, models_dir |-> dir, pc |-> "start",
      block_num |-> 0, total_size |-> 0, transferred |-> FALSE,
      emitted |-> <<>> ]

DModelPath(dw) == ModelPath(dw.models_dir, dw.model_name)

\* run(), line 79: the except clause.
DownloadFailed(dw, msg) ==
    [Emit(dw, Ev("d_error", msg, NoFile, 0, 0)) EXCEPT !.pc = "done"]

\* A faulty variant of DownloadRunStart: the file on disk is not looked for.
DownloadRunStartAnyway(dw, exists, mkdirOK) ==
    IF dw.model_name \notin MODEL_URLS
    THEN DownloadFailed(dw, "KeyError")
    ELSE IF ~mkdirOK
    THEN DownloadFailed(dw, "mkdir")
    ELSE [Emit(dw, Ev("d_status", "downloading", NoFile, 0, 0))
            EXCEPT !.pc = "connect"]

\* run(), lines 49-62: exists says whether model_path.exists(), mkdirOK
\* whether the directory could be created.
DownloadRunStart(dw, exists, mkdirOK) ==
    IF dw.model_name \notin MODEL_URLS
    THEN DownloadFailed(dw, "KeyError")
    ELSE IF exists
    THEN [Emit(Emit(dw, Ev("d_status", "exists", NoFile, 0, 0)),
               Ev("finished_download", "", DModelPath(dw), 0, 0))
            EXCEPT !.pc = "done"]
    ELSE IF ~mkdirOK
    THEN DownloadFailed(dw, "mkdir")
    ELSE [Emit(dw, Ev("d_status", "downloading", NoFile, 0, 0))
            EXCEPT !.pc = "connect"]

\* report_progress, lines 64-71.
report_progress(dw, block_num, block_size, total_size) ==
    LET downloaded == block_num * block_size
    IN  IF total_size > 0
        THEN Emit(Emit(dw, Ev("d_progress", "", NoFile,
                              (downloaded * 100) \div total_size, 0)),
                  Ev("d_status", "megabytes", NoFile, downloaded, total_size))
        ELSE dw

\* urlretrieve, line 73, once the response headers have arrived: the target
\* file is opened for writing and the hook is called for block 0.
TransferBegins(dw, total) ==
    [report_progress(dw, 0, BlockSize, total)
        EXCEPT !.pc = "read", !.total_size = total, !.transferred = TRUE,
               !.block_num = 0]

\* urlretrieve: one more block read and reported.
BlockRead(dw) ==
    [report_progress(dw, dw.block_num + 1, BlockSize, dw.total_size)
        EXCEPT !.block_num = dw.block_num + 1]

RECURSIVE BlocksRead(_, _)
BlocksRead(dw, n) == IF n = 0 THEN dw ELSE BlockRead(BlocksRead(dw, n - 1))

\* A faulty variant of DownloadComplete: the status follows the completion
\* signal.
DownloadCompleteThenStatus(dw) ==
    [Emit(Emit(dw, Ev("finished_download", "", DModelPath(dw), 0, 0)),
          Ev("d_status", "complete", NoFile, 0, 0))
        EXCEPT !.pc = "done"]

\* run(), lines 75-76.
DownloadComplete(dw) ==
    [Emit(Emit(dw, Ev("d_status", "complete", NoFile, 0, 0)),
          Ev("finished_download", "", DModelPath(dw), 0, 0))
        EXCEPT !.pc = "done"]

\* ------------------------------------------------------------ WhisperGUI
Widgets ==
    { "load_model_btn", "model_combo", "browse_models_dir_btn", "start_btn",
      "cancel_btn", "select_file_btn", "clear_btn", "browse_error_log_btn",
      "browse_output_dir_btn" }

\* The directories the directory dialogs can return.
ModelsDirs == {"models"}
OutputDirs == {"out"}
LogDirs == {"logs"}

AllModelPaths == { ModelPath(d, m) : d \in ModelsDirs, m \in MODEL_URLS }

SetEnabled(en, ws, value) ==
    [w \in Widgets |-> IF w \in ws THEN value ELSE en[w]]

\* The controls download_and_load_model disables (420-422) and
\* load_downloaded_model and download_error enable again (464-466, 475-477).
AcquisitionControls == {"load_model_btn", "model_combo", "browse_models_dir_btn"}

\* The controls start_transcription disables (535-543, cancel_btn aside).
JobControls ==
    { "start_btn", "select_file_btn", "clear_btn", "load_model_btn",
      "browse_models_dir_btn", "browse_error_log_btn",
      "browse_output_dir_btn", "model_combo" }

\* A modal dialog is open: the main window takes no input.
DialogOpen == \E i \in 1..Len(modal) : modal[i].kind # "processEvents"
UserCan(widget) == ~DialogOpen /\ enabled[widget]

Frame(kind, path) == [kind |-> kind, path |-> path]

\* A text of status_label: the message and the number it mentions.
Label(text, n) == [text |-> text, n |-> n]

\* What the model keeps of a worker object nothing reads any more.
ForgottenT(w) ==
    [NewTranscriptionWorker(w, <<>>, 0, "", "")
        EXCEPT !.live = FALSE, !.pc = "done", !.shared = FALSE]
ForgottenD(d) ==
    [NewDownloadWorker(d, "", "") EXCEPT !.live = FALSE, !.pc = "done"]

\* A handle for the object whisper.load_model returns: the least number
\* that is neither the controller's handle nor a live worker's.
FreshHandle ==
    LET used == {model} \cup { workers[w].model : w \in { v \in DOMAIN workers : workers[v].live } }
    IN  CHOOSE h \in 1..(Cardinality(used) + 1) :
            h \notin used /\ \A k \in 1..(h - 1) : k \in used

\* The signals whose slots change the state kept here.
QueuedSignals ==
    {"status", "all_complete", "finished", "finished_download", "d_error"}
Queued(evs) == SelectSeq(evs, LAMBDA e : e.sig \in QueuedSignals)

\* ------------------------------------------- TranscriptionWorker thread
thread_vars == <<files, worker, download_worker, model, model_loaded,
                 models_dir, error_log_path, output_dir, enabled, model_combo,
                 status_label, modal, cancel_at>>

\* The worker's new state and its new signals, posted to the GUI thread;
\* QThread.finished follows when run() has returned.
PostT(w, wk2) ==
    /\ workers' = [workers EXCEPT ![w] = wk2]
    /\ queue' = queue \o Queued(NewEvents(workers[w], wk2))
                      \o (IF wk2.pc = "done" THEN <<ThreadFinished(w)>> ELSE <<>>)

\* run() from its start to the first call of model.transcribe (or to its
\* end, when the first check finds the flag set).
TW_Begin(w) ==
    /\ workers[w].pc = "start"
    /\ \E logOK \in BOOLEAN : PostT(w, Advance(RunStart(workers[w]), logOK))
    /\ UNCHANGED <<thread_vars, downloads, artifacts>>

\* One file, from the return of model.transcribe to the progress signal.
\* Words: the word counts a transcript can have.
TW_File(w, Words) ==
    LET wk == workers[w]
    IN  /\ wk.pc = "transcribe"
        /\ \/ PostT(w, TranscribeFails(wk))
           \/ \E wc \in Words, created \in BOOLEAN :
                PostT(w, SaveFails(wk, wc, created))
           \/ \E wc \in Words : PostT(w, FileSucceeds(wk, wc))
        /\ UNCHANGED <<thread_vars, downloads, artifacts>>

\* From the loop head to the next call of model.transcribe, or to the end
\* of run().
TW_Next(w) ==
    /\ workers[w].pc = "loop"
    /\ \E logOK \in BOOLEAN : PostT(w, Advance(workers[w], logOK))
    /\ UNCHANGED <<thread_vars, downloads, artifacts>>

\* ------------------------------------------- ModelDownloadWorker thread
PostD(d, dw2) ==
    /\ downloads' = [downloads EXCEPT ![d] = dw2]
    /\ queue' = queue \o Queued(NewEvents(downloads[d], dw2))

DW_RunStart(d) ==
    LET dw == downloads[d]
    IN  /\ dw.pc = "start"
        /\ \E mkdirOK \in BOOLEAN :
              PostD(d, DownloadRunStart(
                          dw, artifacts[DModelPath(dw)] # "absent", mkdirOK))
        /\ UNCHANGED <<thread_vars, workers, artifacts>>

\* urlretrieve: the request fails, or the response arrives and the target
\* file is created.
DW_Connect(d) ==
    LET dw == downloads[d]
    IN  /\ dw.pc = "connect"
        /\ \/ /\ PostD(d, DownloadFailed(dw, "urlopen"))
              /\ UNCHANGED artifacts
           \/ \E total \in TotalSizes :
                /\ PostD(d, TransferBegins(dw, total))
                /\ artifacts' = [artifacts EXCEPT ![DModelPath(dw)] = "partial"]
        /\ UNCHANGED <<thread_vars, workers>>

\* urlretrieve: the body is read block by block to its end, or a read fails
\* after n blocks and leaves the file as it is.
DW_Transfer(d) ==
    LET dw == downloads[d]
    IN  /\ dw.pc = "read"
        /\ \/ /\ PostD(d, DownloadComplete(BlocksRead(dw, NumBlocks)))
              /\ artifacts' = [artifacts EXCEPT ![DModelPath(dw)] = "complete"]
           \/ \E n \in 0..NumBlocks :
                /\ PostD(d, DownloadFailed(BlocksRead(dw, n), "read"))
                /\ UNCHANGED artifacts
        /\ UNCHANGED <<thread_vars, workers>>

\* --------------------------------------------------- WhisperGUI: clicks
\* select_models_dir (a dismissed dialog changes nothing)
select_models_dir ==
    /\ UserCan("browse_models_dir_btn")
    /\ \E d \in ModelsDirs :
          /\ models_dir' = d
          /\ status_label' = Label("models_dir_set", 0)
    /\ UNCHANGED <<files, worker, download_worker, model, model_loaded,
                   error_log_path, output_dir, enabled, model_combo, modal,
                   queue, workers, downloads, artifacts, cancel_at>>

\* select_error_log_dir
select_error_log_dir ==
    /\ UserCan("browse_error_log_btn")
    /\ \E d \in LogDirs : error_log_path' = d
    /\ UNCHANGED <<files, worker, download_worker, model, model_loaded,
                   models_dir, output_dir, gui_widgets, modal, queue, workers,
                   downloads, artifacts, cancel_at>>

\* select_output_dir
select_output_dir ==
    /\ UserCan("browse_output_dir_btn")
    /\ \E d \in OutputDirs : output_dir' = d
    /\ UNCHANGED <<files, worker, download_worker, model, model_loaded,
                   models_dir, error_log_path, gui_widgets, modal, queue,
                   workers, downloads, artifacts, cancel_at>>

\* The user picks another entry of model_combo, among Models.
select_model(Models) ==
    /\ UserCan("model_combo")
    /\ \E m \in Models \ {model_combo} : model_combo' = m
    /\ UNCHANGED <<gui_fields, enabled, status_label, modal, queue, workers,
                   downloads, artifacts, cancel_at>>

\* download_and_load_model (without a models directory: a warning, no change);
\* at most limit workers are created in a run.
download_and_load_model(limit) ==
    /\ UserCan("load_model_btn")
    /\ models_dir # ""
    /\ Len(downloads) < limit
    /\ enabled' = SetEnabled(enabled, AcquisitionControls, FALSE)
    /\ downloads' = Append(downloads,
           NewDownloadWorker(Len(downloads) + 1, model_combo, models_dir))
    /\ download_worker' = Len(downloads) + 1
    /\ UNCHANGED <<files, worker, model, model_loaded, models_dir,
                   error_log_path, output_dir, model_combo, status_label,
                   modal, queue, workers, artifacts, cancel_at>>

\* select_files: extend() changes the list object in place, so every worker
\* that was given this object sees the new entries.  The user builds lists
\* of at most limit files.
select_files(limit) ==
    /\ UserCan("select_file_btn")
    /\ \E chosen \in SeqsUpTo(MediaFiles, limit - Len(files)) \ { <<>> } :
          /\ files' = files \o chosen
          /\ workers' = [w \in DOMAIN workers |->
                           IF workers[w].live /\ workers[w].shared
                           THEN [workers[w] EXCEPT !.files = @ \o chosen]
                           ELSE workers[w]]
    /\ UNCHANGED <<worker, download_worker, model, model_loaded, models_dir,
                   error_log_path, output_dir, gui_widgets, modal, queue,
                   downloads, artifacts, cancel_at>>

\* clear_files: self.files is bound to a new list.
clear_files ==
    /\ UserCan("clear_btn")
    /\ files' = <<>>
    /\ workers' = [w \in DOMAIN workers |->
                      IF workers[w].live
                      THEN [workers[w] EXCEPT !.shared = FALSE] ELSE workers[w]]
    /\ UNCHANGED <<worker, download_worker, model, model_loaded, models_dir,
                   error_log_path, output_dir, gui_widgets, modal, queue,
                   downloads, artifacts, cancel_at>>

\* A faulty variant of StartAccepted: the output directory is not checked.
StartAcceptedWithoutOutputDir(reply) ==
    /\ model_loaded
    /\ files # <<>>
    /\ error_log_path = "" => reply = "Yes"

\* What start_transcription checks before it creates a worker (512-533);
\* reply is the answer to the "No Error Log Directory" question.
StartAccepted(reply) ==
    /\ model_loaded
    /\ files # <<>>
    /\ output_dir # ""
    /\ error_log_path = "" => reply = "Yes"

\* The question is asked when the three checks before it pass.
Replies ==
    IF model_loaded /\ files # <<>> /\ output_dir # "" /\ error_log_path = ""
    THEN {"Yes", "No"} ELSE {"Yes"}

\* start_transcription when the user answers reply to the question, should
\* it be asked.
StartReplying(reply) ==
    /\ UserCan("start_btn")
    /\ IF StartAccepted(reply)
       THEN /\ enabled' = [SetEnabled(enabled, JobControls, FALSE)
                              EXCEPT !["cancel_btn"] = TRUE]
            /\ workers' = Append(workers,
                   NewTranscriptionWorker(Len(workers) + 1, files, model,
                                          output_dir, error_log_path))
            /\ worker' = Len(workers) + 1
            /\ UNCHANGED status_label
       ELSE /\ status_label' = IF model_loaded /\ files = <<>>
                               THEN Label("select_file_warning", 0)
                               ELSE status_label
            /\ UNCHANGED <<enabled, workers, worker>>
    /\ UNCHANGED <<files, download_worker, model, model_loaded, models_dir,
                   error_log_path, output_dir, model_combo, modal, queue,
                   downloads, artifacts, cancel_at>>

\* start_transcription; at most limit workers are created in a run.
start_transcription(limit) ==
    /\ \E reply \in Replies : StartReplying(reply)
    /\ Len(workers') > Len(workers) => Len(workers) < limit

\* cancel_transcription
cancel_transcription ==
    /\ UserCan("cancel_btn")
    /\ worker # 0
    /\ workers' = [workers EXCEPT ![worker] = IF @.live THEN cancel(@) ELSE @]
    /\ status_label' = Label("cancelling", 0)
    /\ UNCHANGED <<gui_fields, enabled, model_combo, modal, queue, downloads,
                   artifacts>>

\* ------------------------------------------- WhisperGUI: signal handlers
\* A worker whose run() has returned and none of whose signals is waiting
\* in q: its attributes are forgotten.
TSignals == {"status", "all_complete", "finished"}
DSignals == {"finished_download", "d_error"}
Waiting(q, sigs, id) ==
    \E i \in 1..Len(q) : q[i].src = id /\ q[i].sig \in sigs
SettledT(ws, q) ==
    [w \in DOMAIN ws |->
        IF ws[w].pc = "done" /\ ~Waiting(q, TSignals, w)
        THEN ForgottenT(w) ELSE ws[w]]
SettledD(ds, q) ==
    [d \in DOMAIN ds |->
        IF ds[d].pc = "done" /\ ~Waiting(q, DSignals, d)
        THEN ForgottenD(d) ELSE ds[d]]

\* The GUI thread takes the next queued signal; sig names its slot.
Takes(sig) ==
    /\ queue # <<>>
    /\ Head(queue).sig = sig
    /\ queue' = Tail(queue)
    /\ workers' = SettledT(workers, queue')
    /\ downloads' = SettledD(downloads, queue')

\* update_status
update_status ==
    /\ Takes("status")
    /\ status_label' = Label(Head(queue).kind, 0)
    /\ UNCHANGED <<gui_fields, enabled, model_combo, modal, artifacts, cancel_at>>

\* error_count = len(self.files) - successful_files
ErrorCount(listed, successful_files) == Len(listed) - successful_files

\* all_completed
all_completed ==
    /\ Takes("all_complete")
    /\ LET error_count == ErrorCount(files, Head(queue).b)
       IN  status_label' = IF error_count = 0
                           THEN Label("all_complete", 0)
                           ELSE Label("completed_with_errors", error_count)
    /\ UNCHANGED <<gui_fields, enabled, model_combo, modal, artifacts, cancel_at>>

\* transcription_finished
transcription_finished ==
    /\ Takes("finished")
    /\ enabled' = [SetEnabled(enabled, JobControls, TRUE)
                      EXCEPT !["cancel_btn"] = FALSE]
    /\ UNCHANGED <<gui_fields, model_combo, status_label, modal, artifacts, cancel_at>>

\* load_downloaded_model up to QApplication.processEvents() (443-444): the
\* handler is suspended while the pending events are dispatched.
load_downloaded_model ==
    /\ Takes("finished_download")
    /\ modal' = <<Frame("processEvents", Head(queue).file)>> \o modal
    /\ UNCHANGED <<gui_fields, gui_widgets, artifacts, cancel_at>>

\* A faulty variant of LoadModel: a failed load drops the model held before.
LoadModelDropsModelOnFailure ==
    /\ modal # <<>>
    /\ Head(modal).kind = "processEvents"
    /\ queue = <<>>
    /\ \E ok \in (IF artifacts[Head(modal).path] = "complete"
                  THEN BOOLEAN ELSE {FALSE}) :
          IF ok
          THEN /\ model' = FreshHandle
               /\ model_loaded' = TRUE
               /\ status_label' = Label("ready", 0)
               /\ enabled' = SetEnabled(enabled,
                                 AcquisitionControls \cup {"start_btn"}, TRUE)
               /\ modal' = Tail(modal)
          ELSE /\ modal' = <<Frame("load_failed", Head(modal).path)>> \o Tail(modal)
               /\ model' = 0
               /\ model_loaded' = FALSE
               /\ UNCHANGED <<status_label, enabled>>
    /\ UNCHANGED <<files, worker, download_worker, models_dir, error_log_path,
                   output_dir, model_combo, queue, workers, downloads,
                   artifacts, cancel_at>>

\* load_downloaded_model from whisper.load_model on (447-467):
\* processEvents returns when no event is pending.  Only a completely
\* written file can be loaded; loading it may still fail.  On failure the
\* error dialog opens and the finally clause waits for it.
LoadModel ==
    /\ modal # <<>>
    /\ Head(modal).kind = "processEvents"
    /\ queue = <<>>
    /\ \E ok \in (IF artifacts[Head(modal).path] = "complete"
                  THEN BOOLEAN ELSE {FALSE}) :
          IF ok
          THEN /\ model' = FreshHandle
               /\ model_loaded' = TRUE
               /\ status_label' = Label("ready", 0)
               /\ enabled' = SetEnabled(enabled,
                                 AcquisitionControls \cup {"start_btn"}, TRUE)
               /\ modal' = Tail(modal)
          ELSE /\ modal' = <<Frame("load_failed", Head(modal).path)>> \o Tail(modal)
               /\ UNCHANGED <<model, model_loaded, status_label, enabled>>
    /\ UNCHANGED <<files, worker, download_worker, models_dir, error_log_path,
                   output_dir, model_combo, queue, workers, downloads,
                   artifacts, cancel_at>>

\* download_error up to QMessageBox.critical (470-472)
download_error ==
    /\ Takes("d_error")
    /\ modal' = <<Frame("download_error", NoFile)>> \o modal
    /\ UNCHANGED <<gui_fields, gui_widgets, artifacts, cancel_at>>

\* A faulty variant of AcknowledgeError: the controls stay disabled.
AcknowledgeErrorLeavesDisabled ==
    /\ modal # <<>>
    /\ Head(modal).kind \in {"download_error", "load_failed"}
    /\ modal' = Tail(modal)
    /\ UNCHANGED <<gui_fields, gui_widgets, queue, workers, downloads,
                   artifacts, cancel_at>>

\* The user closes the error dialog on top: download_error (475-478) or the
\* finally clause of load_downloaded_model (464-467) enables the controls.
AcknowledgeError ==
    /\ modal # <<>>
    /\ Head(modal).kind \in {"download_error", "load_failed"}
    /\ modal' = Tail(modal)
    /\ enabled' = SetEnabled(enabled, AcquisitionControls, TRUE)
    /\ UNCHANGED <<gui_fields, model_combo, status_label, queue, workers,
                   downloads, artifacts, cancel_at>>

\* --------------------------------------------------------- specifications
NeverCancelled == [called |-> FALSE, finished |-> 0, pc |-> ""]

\* After WhisperGUI.__init__: load_settings restores any of the three
\* directories; init_ui leaves start_btn and cancel_btn disabled.
Init ==
    /\ files = <<>>
    /\ worker = 0
    /\ download_worker = 0
    /\ model = 0
    /\ model_loaded = FALSE
    /\ models_dir \in ModelsDirs \cup {""}
    /\ error_log_path \in LogDirs \cup {""}
    /\ output_dir \in OutputDirs \cup {""}
    /\ enabled = [w \in Widgets |-> w \notin {"start_btn", "cancel_btn"}]
    /\ model_combo = "medium"
    /\ status_label = Label("initial", 0)
    /\ modal = <<>>
    /\ queue = <<>>
    /\ workers = <<>>
    /\ downloads = <<>>
    /\ artifacts = [p \in AllModelPaths |-> "absent"]
    /\ cancel_at = NeverCancelled

TranscriptionStep(Words) ==
    \E w \in DOMAIN workers : TW_Begin(w) \/ TW_File(w, Words) \/ TW_Next(w)

DownloadStep ==
    \E d \in DOMAIN downloads :
        DW_RunStart(d) \/ DW_Connect(d) \/ DW_Transfer(d)

UserStep(maxT, maxD) ==
    \/ select_models_dir
    \/ select_error_log_dir
    \/ select_output_dir
    \/ download_and_load_model(maxD)
    \/ select_files(MaxListed)
    \/ clear_files
    \/ start_transcription(maxT)
    \/ cancel_transcription /\ UNCHANGED cancel_at
    \/ AcknowledgeError

SlotStep ==
    \/ update_status
    \/ all_completed
    \/ transcription_finished
    \/ load_downloaded_model
    \/ LoadModel
    \/ download_error

\* The controller with the model the combo box shows at construction.
Next ==
    \/ TranscriptionStep({MaxWords})
    \/ DownloadStep
    \/ UserStep(MaxTranscriptions, MaxDownloads)
    \/ SlotStep

Spec == Init /\ [][Next]_vars

\* The controller with the user also choosing among the models, in runs
\* with MaxBatches batches.
NextReload ==
    \/ TranscriptionStep({MaxWords})
    \/ DownloadStep
    \/ UserStep(MaxBatches, MaxReloads)
    \/ select_model(PickedModels)
    \/ SlotStep

SpecReload == Init /\ [][NextReload]_vars

\* Batches on their own, after a model has been loaded: the user chooses
\* files and directories and presses Start and Cancel.
InitJobs ==
    /\ files = <<>>
    /\ worker = 0
    /\ download_worker = 1
    /\ model = 1
    /\ model_loaded = TRUE
    /\ models_dir \in ModelsDirs
    /\ error_log_path \in LogDirs \cup {""}
    /\ output_dir \in OutputDirs \cup {""}
    /\ enabled = [w \in Widgets |-> w # "cancel_btn"]
    /\ model_combo = "medium"
    /\ status_label = Label("ready", 0)
    /\ modal = <<>>
    /\ queue = <<>>
    /\ workers = <<>>
    /\ downloads = <<ForgottenD(1)>>
    /\ artifacts = [p \in AllModelPaths |->
                      IF p = ModelPath(models_dir, model_combo)
                      THEN "complete" ELSE "absent"]
    /\ cancel_at = NeverCancelled

NextJobs ==
    \/ TranscriptionStep({0, MaxWords})
    \/ select_error_log_dir
    \/ select_output_dir
    \/ select_files(MaxJobFiles)
    \/ clear_files
    \/ start_transcription(MaxJobs)
    \/ cancel_transcription /\ UNCHANGED cancel_at
    \/ update_status
    \/ all_completed
    \/ transcription_finished

SpecJobs == InitJobs /\ [][NextJobs]_vars

\* Batches and a further acquisition side by side: the controller after a
\* first model has been loaded and with the three directories restored from
\* the settings; the user adds files to the list, presses Start, and
\* presses Load again for the model that is already on disk.  Every file
\* can be transcribed and saved.
InitOverlap ==
    /\ InitJobs
    /\ error_log_path \in LogDirs
    /\ output_dir \in OutputDirs

FileTranscribed(w) ==
    /\ TW_File(w, {MaxWords})
    /\ workers'[w].errors = workers[w].errors

NextOverlap ==
    \/ \E w \in DOMAIN workers : TW_Begin(w) \/ FileTranscribed(w) \/ TW_Next(w)
    \/ \E d \in DOMAIN downloads : DW_RunStart(d)
    \/ download_and_load_model(MaxDownloads)
    \/ select_files(MaxJobFiles)
    \/ start_transcription(MaxJobs)
    \/ update_status
    \/ all_completed
    \/ transcription_finished
    \/ load_downloaded_model
    \/ LoadModel
    \/ AcknowledgeError

SpecOverlap == InitOverlap /\ [][NextOverlap]_vars

\* Model acquisition on its own: the user only chooses directories and
\* models and presses Load; any one model file may be on disk, whole or in
\* part, when the program starts.
InitAcquire ==
    /\ files = <<>>
    /\ worker = 0
    /\ download_worker = 0
    /\ model = 0
    /\ model_loaded = FALSE
    /\ models_dir \in ModelsDirs \cup {""}
    /\ error_log_path = ""
    /\ output_dir = ""
    /\ enabled = [w \in Widgets |-> w \notin {"start_btn", "cancel_btn"}]
    /\ model_combo = "medium"
    /\ status_label = Label("initial", 0)
    /\ modal = <<>>
    /\ queue = <<>>
    /\ workers = <<>>
    /\ downloads = <<>>
    /\ artifacts \in { a \in [AllModelPaths -> {"absent", "partial", "complete"}] :
                         Cardinality({ p \in AllModelPaths : a[p] # "absent" }) <= 1 }
    /\ cancel_at = NeverCancelled

NextAcquire ==
    \/ DownloadStep
    \/ select_models_dir
    \/ select_model(MODEL_URLS)
    \/ download_and_load_model(MaxReloads)
    \/ load_downloaded_model
    \/ LoadModel
    \/ download_error
    \/ AcknowledgeError

SpecAcquire == InitAcquire /\ [][NextAcquire]_vars

\* The same, with the event loop of the GUI thread delivering every queued
\* signal and returning from processEvents, and with a user who closes an
\* error dialog that is shown.
FairAcquire ==
    /\ SpecAcquire
    /\ WF_vars(load_downloaded_model)
    /\ WF_vars(LoadModel)
    /\ WF_vars(download_error)
    /\ WF_vars(AcknowledgeError)

\* One batch on its own: a worker as start_transcription creates it, for
\* every input list and either setting of the error-log directory, with the
\* user free to press Cancel at any moment.
InitBatch ==
    /\ files \in SeqsUpTo(MediaFiles, MaxFiles) \ { <<>> }
    /\ worker = 1
    /\ download_worker = 1
    /\ model = 1
    /\ model_loaded = TRUE
    /\ models_dir = "models"
    /\ error_log_path \in LogDirs \cup {""}
    /\ output_dir \in OutputDirs
    /\ enabled = [w \in Widgets |-> w = "cancel_btn"]
    /\ model_combo = "medium"
    /\ status_label = Label("ready", 0)
    /\ modal = <<>>
    /\ queue = <<>>
    /\ workers = <<NewTranscriptionWorker(1, files, 1, output_dir, error_log_path)>>
    /\ downloads = <<ForgottenD(1)>>
    /\ artifacts = [p \in AllModelPaths |->
                      IF p = ModelPath(models_dir, model_combo)
                      THEN "complete" ELSE "absent"]
    /\ cancel_at = NeverCancelled

\* cancel_transcription, noting where the task is at the first call.
CancelObserved ==
    /\ cancel_transcription
    /\ cancel_at' = IF cancel_at.called THEN cancel_at
                    ELSE [called |-> TRUE, finished |-> workers[worker].idx,
                          pc |-> workers[worker].pc]

NextBatch == TranscriptionStep({0, MaxWords}) \/ CancelObserved

SpecBatch == InitBatch /\ [][NextBatch]_vars

\* The same, with the worker thread always scheduled again.
FairBatch == SpecBatch /\ WF_vars(TranscriptionStep({0, MaxWords}))

(***************************************************************************)
(* Properties of one batch.                                                *)
(***************************************************************************)
IsFileComplete(e) == e.sig = "file_complete"
IsFileError(e) == e.sig = "error" /\ e.kind # "log"
IsLogError(e) == e.sig = "error" /\ e.kind = "log"
IsResult(e) == IsFileComplete(e) \/ IsFileError(e)
IsAttempt(e) == e.sig = "status" /\ e.kind = "transcribing"
IsCancelNotice(e) == e.sig = "status" /\ e.kind = "cancelled"
IsProgress(e) == e.sig = "progress"
IsSummary(e) == e.sig = "all_complete"

Results(wk) == SelectSeq(wk.emitted, IsResult)
Attempts(wk) == Len(SelectSeq(wk.emitted, IsAttempt))
CancelNoticed(wk) == SelectSeq(wk.emitted, IsCancelNotice) # <<>>
Summary(wk) == wk.emitted[Len(wk.emitted)]
LiveWorkers == { w \in DOMAIN workers : workers[w].live }

\* The failures of wk are recorded in its errors list and signalled, in
\* order; the i-th result is about the i-th file; and after a failure at a
\* position before the last, the next file is attempted, or the loop is
\* still before its next check, or the check found the flag set.
FailureIsolated(wk) ==
    LET res == Results(wk)
        errs == SelectSeq(wk.emitted, IsFileError)
    IN  /\ Len(errs) = Len(wk.errors)
        /\ \A j \in 1..Len(errs) :
              /\ errs[j].file = wk.errors[j].file
              /\ errs[j].kind = wk.errors[j].msg
        /\ Len(res) <= Len(wk.files)
        /\ \A i \in 1..Len(res) :
              /\ res[i].file = FileName(wk.files[i])
              /\ IsFileError(res[i]) /\ i < Len(wk.files) =>
                    \/ Attempts(wk) > i
                    \/ wk.pc = "loop" /\ wk.idx = i
                    \/ wk.is_cancelled /\ CancelNoticed(wk)

\* C1: a file whose transcription or saving raises is recorded and
\* signalled, and every later file is still attempted unless the
\* cancellation flag is found set at a later loop head; a failure never
\* ends the loop.
C1_FailureIsolation == \A w \in LiveWorkers : FailureIsolated(workers[w])

\* A finished, never cancelled batch whose first file failed and whose
\* second file was transcribed.
C1_Witness ==
    \E w \in LiveWorkers :
        /\ workers[w].pc = "done"
        /\ ~workers[w].is_cancelled
        /\ Len(Results(workers[w])) >= 2
        /\ IsFileError(Results(workers[w])[1])
        /\ IsFileComplete(Results(workers[w])[2])

\* The files the loop never reached.
Unattempted(wk) == Len(wk.files) - Attempts(wk)

BatchAccounted(wk) ==
    wk.pc = "done" =>
        /\ IsSummary(Summary(wk))
        /\ Summary(wk).b + Len(wk.errors) + Unattempted(wk) = Len(wk.files)
        /\ Unattempted(wk) > 0 => CancelNoticed(wk)

\* C2: when the summary is emitted, the successful count it carries, the
\* recorded failures and the files left unattempted by a cancellation add
\* up to the number of input files.
C2_BatchAccounting == \A w \in LiveWorkers : BatchAccounted(workers[w])

\* A cancelled batch with a success, a failure and a file never attempted.
C2_Witness ==
    \E w \in LiveWorkers :
        /\ workers[w].pc = "done"
        /\ Summary(workers[w]).b >= 1
        /\ Len(workers[w].errors) >= 1
        /\ Unattempted(workers[w]) >= 1

SummaryOnceAndLast(wk) ==
    LET n == Len(SelectSeq(wk.emitted, IsSummary))
    IN  /\ n <= 1
        /\ n = 1 => wk.pc = "done" /\ IsSummary(Summary(wk))
        /\ wk.pc = "done" => n = 1

\* C3: every batch emits all_complete exactly once, as its last event,
\* whether the loop ran out of files or was cancelled, provided the worker
\* thread keeps being scheduled and each transcription returns or fails.
C3_SummaryOnceAndLast ==
    /\ [](\A w \in LiveWorkers : SummaryOnceAndLast(workers[w]))
    /\ <>(\A w \in LiveWorkers : workers[w].pc = "done")

\* A cancelled batch whose error log could not be written, finished with
\* its summary.
C3_Witness ==
    \E w \in LiveWorkers :
        /\ workers[w].pc = "done"
        /\ CancelNoticed(workers[w])
        /\ SelectSeq(workers[w].emitted, IsLogError) # <<>>
        /\ IsSummary(Summary(workers[w]))

\* cancel() was first called with k files finished: before the next check
\* of the flag (AtBoundary) or with file k + 1 in flight (InFlight).
CancelledAtBoundary == cancel_at.called /\ cancel_at.pc \in {"start", "loop"}
CancelledInFlight == cancel_at.called /\ cancel_at.pc = "transcribe"

CooperativeCancellation(wk) ==
    LET n == Len(wk.files)
        k == cancel_at.finished
        res == Results(wk)
    IN  /\ CancelledAtBoundary =>
              /\ Len(res) = k
              /\ Attempts(wk) = k
              /\ \A i \in DOMAIN wk.emitted :
                    IsProgress(wk.emitted[i]) =>
                        wk.emitted[i].a <= ProgressPercent(k, n)
              /\ wk.pc = "done" =>
                    /\ Summary(wk).b = Len(SelectSeq(res, IsFileComplete))
                    /\ Summary(wk).b <= k
                    /\ k < n => CancelNoticed(wk)
        /\ CancelledInFlight =>
              /\ Attempts(wk) = k + 1
              /\ wk.pc # "transcribe" => Len(res) = k + 1
              /\ \A i, j \in DOMAIN wk.emitted :
                    IsCancelNotice(wk.emitted[i]) /\ IsResult(wk.emitted[j])
                        => j < i
              /\ wk.pc = "done" /\ k + 1 < n => CancelNoticed(wk)

\* C4: the flag is read only at the loop head.  When cancel() is called
\* after k files have finished and before the next check, exactly k results
\* are emitted, no later file is attempted, progress stays at or below
\* floor(k/n*100) and the summary counts only those k files; when it is
\* called while a file is in flight, that file still finishes and is
\* reported before the cancellation takes effect.
C4_CooperativeCancellation ==
    \A w \in LiveWorkers : w = worker => CooperativeCancellation(workers[w])

\* A batch of three files cancelled after the second, finished.
C4_Witness ==
    /\ CancelledAtBoundary
    /\ cancel_at.pc = "loop"
    /\ cancel_at.finished = 2
    /\ worker \in LiveWorkers
    /\ Len(workers[worker].files) = 3
    /\ workers[worker].pc = "done"

(***************************************************************************)
(* Properties of the controller.                                           *)
(***************************************************************************)
RunningTranscriptions == { w \in DOMAIN workers : Running(workers[w]) }
RunningDownloads == { d \in DOMAIN downloads : Running(downloads[d]) }

\* C5: the error count all_completed presents is the number of files that
\* failed in the batch whose summary it handles; files a cancelled batch
\* never attempted are not counted.
C5_PresentedErrorCount ==
    [][all_completed =>
          status_label'.n = Len(workers[Head(queue).src].errors)]_vars

\* C6: at most one ModelDownloadWorker is running at any time.
C6_OneDownloadActive == Cardinality(RunningDownloads) <= 1

\* C7: at most one TranscriptionWorker is running at any time.
C7_OneTranscriptionActive == Cardinality(RunningTranscriptions) <= 1

\* C8: no two running TranscriptionWorkers hold the same model handle.
C8_ExclusiveModel ==
    \A v, w \in RunningTranscriptions :
        v # w => workers[v].model # workers[w].model

\* What start_transcription leaves alone when it creates no worker: the
\* controller's fields, the controls and the objects it owns.
RejectionChangesNothing ==
    /\ UNCHANGED <<gui_fields, enabled, model_combo, modal, queue, workers,
                   downloads, artifacts>>
    /\ \/ UNCHANGED status_label
       \/ files = <<>> /\ status_label' = Label("select_file_warning", 0)

\* C9: start_transcription creates a worker only when a model is loaded,
\* the file list is not empty and an output directory is set, and, with no
\* error-log directory set, only when the user answers Yes; the worker gets
\* the controller's list, model and directories.  When it creates none, the
\* controller's fields and controls are as before; the only trace is the
\* warning the status label shows for an empty list.
C9_StartPreconditions ==
    [][\A reply \in {"Yes", "No"} :
          StartReplying(reply) =>
              IF Len(workers') > Len(workers)
              THEN /\ model_loaded /\ model # 0
                   /\ files # <<>>
                   /\ output_dir # ""
                   /\ error_log_path = "" => reply = "Yes"
                   /\ workers'[worker'] =
                         NewTranscriptionWorker(worker', files, model,
                                                output_dir, error_log_path)
              ELSE RejectionChangesNothing]_vars

\* Start was pressed with an empty list after a model was loaded, and a
\* batch was started at another time.
C9_Witness ==
    /\ status_label = Label("select_file_warning", 0)
    /\ model_loaded
    /\ workers # <<>>

\* C10: when the model file exists as run() starts, the worker transfers
\* nothing, reports no progress and emits finished_download with the path
\* <models_dir>/<model_name>.pt, for every model of the catalog.
C10_ExistingArtifact ==
    [][\A d \in DOMAIN downloads :
          LET dw == downloads[d]
              path == ModelPath(dw.models_dir, dw.model_name)
          IN  /\ dw.live /\ dw.pc = "start"
              /\ downloads'[d] # dw
              /\ artifacts[path] # "absent"
              => /\ dw.model_name \in MODEL_URLS
                 /\ downloads'[d].pc = "done"
                 /\ ~downloads'[d].transferred
                 /\ artifacts' = artifacts
                 /\ downloads'[d].emitted =
                       << [Ev("d_status", "exists", NoFile, 0, 0)
                              EXCEPT !.src = d],
                          [Ev("finished_download", "", path, 0, 0)
                              EXCEPT !.src = d] >>]_vars

\* A worker for a model other than the default found the file on disk and
\* finished without a transfer.
C10_Witness ==
    \E d \in DOMAIN downloads :
        /\ downloads[d].live
        /\ downloads[d].pc = "done"
        /\ downloads[d].model_name = "large-v3"
        /\ ~downloads[d].transferred
        /\ artifacts[DModelPath(downloads[d])] = "complete"
        /\ Len(downloads[d].emitted) = 2
        /\ downloads[d].emitted[2].sig = "finished_download"

(***************************************************************************)
(* Properties of acquisition failures and of what a batch writes.          *)
(***************************************************************************)
ErrorDialogs == {"download_error", "load_failed"}
ErrorDialogOnTop == modal # <<>> /\ Head(modal).kind \in ErrorDialogs

\* The step in which whisper.load_model returned a model.
LoadSucceeds ==
    /\ modal # <<>>
    /\ Head(modal).kind = "processEvents"
    /\ modal' = Tail(modal)
    /\ model_loaded'

\* C11: a download error or a failed load leaves the controller's model
\* handle and its model_loaded flag as they were: only a load that succeeds
\* changes them, no step of a failure disables Start, and while a model is
\* loaded and no batch was started, Start stays enabled with that model.
C11_FailureKeepsModel ==
    /\ [](model_loaded => model # 0)
    /\ [](model_loaded /\ workers = <<>> => enabled["start_btn"])
    /\ [][/\ model' # model \/ model_loaded' # model_loaded => LoadSucceeds
          /\ ErrorDialogOnTop \/ ErrorDialogOnTop' =>
                /\ model' = model /\ model_loaded' = model_loaded
                /\ enabled["start_btn"] => enabled'["start_btn"]]_vars

\* A model is loaded and a later acquisition has ended in an error dialog.
C11_Witness ==
    /\ ErrorDialogOnTop
    /\ model_loaded
    /\ model # 0

\* The File:/Error: blocks of the failures wk has signalled, in order.
FailureBlocks(wk) ==
    LET errs == SelectSeq(wk.emitted, IsFileError)
    IN  [i \in 1..Len(errs) |-> [file |-> errs[i].file, msg |-> errs[i].kind]]
LogErrorSignalled(wk) == SelectSeq(wk.emitted, IsLogError) # <<>>

ErrorLogPersisted(wk) ==
    /\ wk.pc # "done" => wk.logs = <<>>
    /\ wk.pc = "done" =>
          /\ Len(wk.logs) <= 1
          /\ Len(wk.logs) = 1 =>
                /\ FailureBlocks(wk) # <<>>
                /\ wk.error_log_path # ""
                /\ wk.logs[1] = FailureBlocks(wk)
                /\ ~LogErrorSignalled(wk)
          /\ FailureBlocks(wk) # <<>> /\ wk.error_log_path # "" =>
                Len(wk.logs) = 1 \/ LogErrorSignalled(wk)

LogFailureNonFatal(wk) ==
    LogErrorSignalled(wk) =>
        /\ wk.pc = "done"
        /\ Len(wk.emitted) >= 2
        /\ IsSummary(Summary(wk))
        /\ IsLogError(wk.emitted[Len(wk.emitted) - 1])
        /\ wk.errors = FailureBlocks(wk)
        /\ Summary(wk).b = Len(SelectSeq(wk.emitted, IsFileComplete))
        /\ Summary(wk).b = wk.successful_files
        /\ Summary(wk).a = wk.total_words

\* C13: when the error log cannot be written, the task signals an error,
\* still ends normally with its summary as the next event, keeps its
\* failure list, and the summary carries the successful count and word
\* total the loop had reached.
C13_LogFailureNonFatal == \A w \in LiveWorkers : LogFailureNonFatal(workers[w])

\* A batch that ran to the end of its list with a success and a failure,
\* and whose log could not be written.
C13_Witness ==
    \E w \in LiveWorkers :
        /\ workers[w].pc = "done"
        /\ ~workers[w].is_cancelled
        /\ LogErrorSignalled(workers[w])
        /\ Summary(workers[w]).b >= 1

\* The distinct files wk has created in its output directory.
OutputFiles(wk) == { wk.written[i] : i \in DOMAIN wk.written }

\* C14: at the end of a batch the number of distinct output files written
\* equals the successful-file count of the summary.
C14_OneOutputPerSuccess ==
    \A w \in LiveWorkers :
        workers[w].pc = "done" =>
            Cardinality(OutputFiles(workers[w])) = Summary(workers[w]).b

RECURSIVE SumWords(_)
\* The sum of the word counts of the file_complete signals in evs.
SumWords(evs) ==
    IF evs = <<>> THEN 0
    ELSE (IF IsFileComplete(Head(evs)) THEN Head(evs).a ELSE 0)
         + SumWords(Tail(evs))

\* C16: the total word count of the summary is the sum of the word counts
\* of the per-file success results of the batch.
C16_TotalWords ==
    \A w \in LiveWorkers :
        workers[w].pc = "done" =>
            Summary(workers[w]).a = SumWords(workers[w].emitted)

\* The positions in evs of the events that satisfy P, and the i-th of a set
\* of positions.
Indices(evs, P(_)) == { j \in DOMAIN evs : P(evs[j]) }
Nth(S, i) == CHOOSE j \in S : Cardinality({ k \in S : k <= j }) = i

ResultsInOrder(wk) ==
    LET ev == wk.emitted
        A == Indices(ev, IsAttempt)
        R == Indices(ev, IsResult)
        P == Indices(ev, IsProgress)
    IN  /\ Cardinality(P) = wk.idx
        /\ Cardinality(R) = Cardinality(P)
        /\ Cardinality(A) <= Len(wk.files)
        /\ Cardinality(A) = IF wk.pc = "transcribe" THEN wk.idx + 1 ELSE wk.idx
        /\ \A i \in 1..Cardinality(A) :
              /\ ev[Nth(A, i)].file = FileName(wk.files[i])
              /\ ev[Nth(A, i)].a = i
        /\ \A i \in 1..Cardinality(R) :
              /\ ev[Nth(R, i)].file = FileName(wk.files[i])
              /\ Nth(A, i) < Nth(R, i)
              /\ Nth(R, i) < Nth(P, i)
              /\ i < Cardinality(A) => Nth(P, i) < Nth(A, i + 1)

C17_ProgressValues ==
    \A w \in LiveWorkers :
        LET wk == workers[w]
            prog == SelectSeq(wk.emitted, IsProgress)
        IN  \A i \in 1..Len(prog) :
                /\ prog[i].a = ProgressPercent(i, wk.total_files)
                /\ prog[i].a \in 0..100
                /\ i > 1 => prog[i - 1].a <= prog[i].a
                /\ prog[i].a = 100 <=> i = Len(wk.files)

\* The job of a task: what its constructor received.
Job(wk) == <<wk.files, wk.output_dir, wk.error_log_path>>

\* C19: while a task runs, no step changes its file list, its output
\* directory or its error-log directory.
C19_JobImmutable ==
    [][\A w \in DOMAIN workers :
          Running(workers[w]) => Job(workers'[w]) = Job(workers[w])]_vars

\* An error dialog of an acquisition is open, on top or below other frames.
ErrorDialogOpen == \E i \in DOMAIN modal : modal[i].kind \in ErrorDialogs

\* C20: while the error dialog of a failed acquisition or load has not
\* been acknowledged, no acquisition control is enabled.
C20_DisabledUntilAcknowledged ==
    ErrorDialogOpen => \A c \in AcquisitionControls : ~enabled[c]

\* A download worker's run() has ended and its signal is not handled yet.
AcquisitionRunEnded ==
    \E d \in DOMAIN downloads : downloads[d].live /\ downloads[d].pc = "done"
AcquisitionControlsEnabled == \A c \in AcquisitionControls : enabled[c]

IsDownloadProgress(e) == e.sig = "d_progress"
IsByteCount(e) == e.sig = "d_status" /\ e.kind = "megabytes"
IsCompletion(e) == e.sig = "finished_download"
IsDownloadError(e) == e.sig = "d_error"
IsTerminal(e) == IsCompletion(e) \/ IsDownloadError(e)
LiveDownloads == { d \in DOMAIN downloads : downloads[d].live }

\* The bytes of the body received when k blocks have been read: every block
\* is full but the last, which holds the rest of the body.
BytesRead(k) ==
    IF k * BlockSize < ContentLength THEN k * BlockSize ELSE ContentLength

\* C21: with a known total size the task signals, at the report point after
\* k blocks, the progress floor(bytes downloaded * 100 / total size); with
\* an unknown total size it signals no progress and no byte count.
C21_DownloadProgress ==
    \A d \in LiveDownloads :
        LET dw == downloads[d]
            prog == SelectSeq(dw.emitted, IsDownloadProgress)
        IN  IF dw.transferred /\ dw.total_size > 0
            THEN /\ Len(prog) = dw.block_num + 1
                 /\ \A i \in 1..Len(prog) :
                       prog[i].a = (BytesRead(i - 1) * 100) \div dw.total_size
            ELSE /\ prog = <<>>
                 /\ SelectSeq(dw.emitted, IsByteCount) = <<>>

\* C22: every progress percentage the acquisition task signals lies in
\* 0..100.
C22_PercentInRange ==
    \A d \in LiveDownloads :
        \A i \in DOMAIN downloads[d].emitted :
            IsDownloadProgress(downloads[d].emitted[i]) =>
                downloads[d].emitted[i].a \in 0..100

OneTerminalSignal(dw) ==
    LET term == SelectSeq(dw.emitted, IsTerminal)
    IN  IF dw.pc = "done"
        THEN /\ Len(term) = 1
             /\ dw.emitted[Len(dw.emitted)] = term[1]
             /\ IsCompletion(term[1]) => term[1].file = DModelPath(dw)
             /\ IsDownloadError(term[1]) => term[1].kind # ""
        ELSE term = <<>>

\* C23: a run of the acquisition task that has ended has emitted exactly
\* one terminal signal, the completion signal with the artifact path or the
\* error signal with a message, as its last signal; a run that has not
\* ended has emitted none.
C23_OneTerminalSignal == \A d \in LiveDownloads : OneTerminalSignal(downloads[d])

\* A run that reported progress for a block and then ended with the error
\* signal.
C23_Witness ==
    \E d \in LiveDownloads :
        /\ downloads[d].pc = "done"
        /\ downloads[d].transferred
        /\ Len(SelectSeq(downloads[d].emitted, IsDownloadProgress)) >= 2
        /\ IsDownloadError(downloads[d].emitted[Len(downloads[d].emitted)])

\* C24: a run of the acquisition task ends with the completion signal only
\* when the artifact file it names was written by a transfer that ran to
\* the end.
C24_CompleteArtifactOnly ==
    \A d \in LiveDownloads :
        LET dw == downloads[d]
        IN  dw.pc = "done" /\ IsCompletion(dw.emitted[Len(dw.emitted)])
                => artifacts[DModelPath(dw)] = "complete"

====
